---------------------------- MODULE Spec2Model ----------------------------
(***************************************************************************)
(* prep(x) backend: the session/job lifecycle (main.py), the event hub     *)
(* (session_logs / session_queues / broadcast_log), the per-course         *)
(* pipeline of run_agent_workflow and the stage wrappers and rate limiter  *)
(* of agents.py.                                                           *)
(*                                                                         *)
(* The backend is a single asyncio event loop: code between two awaits     *)
(* that really suspend runs atomically.  The suspension points are the     *)
(* rate limiter's asyncio.sleep, the external agent call                   *)
(* (runner.run_async) and the stream consumer's queue.get.  Every action   *)
(* below is one such atomic segment of a handler or of the background      *)
(* task.                                                                   *)
(***************************************************************************)
EXTENDS Integers, Sequences, FiniteSets, TLC

VARIABLES
    session_logs,     \* main.py:35  sessionId -> list of log entries
    session_results,  \* main.py:36  sessionId -> stored result (or no key)
    session_queues,   \* main.py:38  sessionId -> list of subscriber queues
    queues,           \* the asyncio.Queue of every stream connection
    jobs,             \* the background tasks created by generate_plan
    hist,             \* history per job: events emitted, result writes, calls
    now,              \* time.time()
    last_api_call,    \* agents.py:27 _last_api_call
    callers,          \* position of every caller of run_agent in _rate_limit
    recent,           \* history: start times of the last two released calls
    final_text,       \* agents.py:279 the final response text of one run_agent call
    response,         \* agents.py:293-316 what run_agent returns for final_text
    courses_data,     \* agents.py:430 the argument of one generate_study_plan call
    compressed,       \* agents.py:432 the compressed records built from it
    textbook,         \* agents.py:69 PdfReader(path).pages of the textbook
    requested,        \* agents.py:120, 391 the page ranges or sections asked for
    page_ranges,      \* agents.py:121, 400 the clamped page ranges
    pages_read,       \* history: the pages extracted for each range
    sampled,          \* agents.py:126, 407 the extracted text before truncation
    relevant_text     \* agents.py:127-129, 408-409 the text after truncation

hubVars  == <<session_logs, session_results, session_queues, queues, jobs, hist>>
rateVars == <<now, last_api_call, callers, recent>>
bookVars == <<textbook, requested, page_ranges, pages_read, sampled, relevant_text>>
pureVars == <<final_text, response, courses_data, compressed,
              textbook, requested, page_ranges, pages_read, sampled, relevant_text>>
vars     == <<session_logs, session_results, session_queues, queues, jobs, hist,
              now, last_api_call, callers, recent,
              final_text, response, courses_data, compressed,
              textbook, requested, page_ranges, pages_read, sampled, relevant_text>>

---------------------------------------------------------------------------
(* Bounds of the model *)

MaxJobs == 2          \* POST /api/plan requests in one run
MaxSubs == 2          \* GET /stream connections in one run
MaxCourses == 2       \* courses per request in the pipeline specification
NumCallers == 2       \* overlapping Jobs in the rate-limiter specification
MaxTime == 30         \* clock ticks in the rate-limiter specification

(* Program constants *)

RPM_DELAY == 13       \* agents.py:28 _RPM_DELAY
DEFAULT_HOURS == 2    \* agents.py:395, 443 (2.0)

Sessions == {"s1", "s2"}
JobIds   == 1..MaxJobs
QueueIds == 1..MaxSubs
CallerIds == 1..NumCallers

COURSE_COLORS == <<"#4a5d45", "#8c7851", "#51688c", "#8c5151", "#518c86">>

---------------------------------------------------------------------------
(* Strings.  str.lower() on the strings the model uses. *)

Lower(s) ==
    CASE s = "Unknown" -> "unknown"
      [] s = "UNKNOWN" -> "unknown"
      [] s = "N/A"     -> "n/a"
      [] s = "None"    -> "none"
      [] OTHER         -> s

(* ISO dates compare as strings; DateOrder lists the model's dates in that order. *)
DateOrder == <<"2025-05-01", "2025-05-02", "2025-05-03">>
Dates == {DateOrder[i] : i \in DOMAIN DateOrder}
DayOf(d) == CHOOSE i \in DOMAIN DateOrder : DateOrder[i] = d
DateBefore(a, b) == DayOf(a) < DayOf(b)

---------------------------------------------------------------------------
(* JSON values as the code sees them.  A mapping is a record that lists    *)
(* the keys it holds in "keys"; dict.get(k, default) is Get.               *)

Get(d, k, default) == IF k \in d.keys THEN d[k] ELSE default

Last(s) == s[Len(s)]

---------------------------------------------------------------------------
(* Events, results and the effects of one atomic segment of a Job.          *)
(* An event's field n is its emission index within its Job: it stands for   *)
(* the timestamp and the message text that tell two log entries apart.      *)

NoEvent == [job |-> 0, n |-> 0, agent |-> "", msg |-> <<>>, status |-> "", done |-> FALSE]

NoKey == [shape |-> "absent", items |-> <<>>, error |-> "", status |-> ""]
Processing == [shape |-> "dict", items |-> <<>>, error |-> "", status |-> "processing"]
ErrorDescriptor(error_msg) ==
    [shape |-> "dict", items |-> <<>>, error |-> error_msg, status |-> ""]
IsError(r) == r.shape = "dict" /\ r.error # ""
IsTaskList(r) == r.shape = "list"

(* The worker state w of a segment: the Job's id, its record jb, its history h *)
(* and out, the effects of the segment in program order.                       *)

log_entry(w, agent, msg, status, done) ==
    [job |-> w.id, n |-> w.jb.n + 1, agent |-> agent, msg |-> msg,
     status |-> status, done |-> done]

(* main.py:305-312 broadcast_log: the entry goes to the session's queues only. *)
broadcast_log(w, agent, msg, status) ==
    LET e == log_entry(w, agent, msg, status, TRUE)
    IN  [w EXCEPT !.jb.n = @ + 1,
                  !.h.emitted = Append(@, e),
                  !.out = Append(@, [op |-> "bcast", ev |-> e, val |-> NoKey])]

(* main.py:293-303 add_log: append to session_logs, then broadcast_log. *)
add_log(w, agent, msg, status) ==
    LET e == log_entry(w, agent, msg, status, FALSE)
    IN  [w EXCEPT !.jb.n = @ + 1,
                  !.h.emitted = Append(@, e),
                  !.out = Append(@, [op |-> "log", ev |-> e, val |-> NoKey])]

store_result_skipped(w, value) == w

(* session_results[sessionId] = value  (main.py:265, 284) *)
store_result(w, value) ==
    [w EXCEPT !.h.writes = Append(@, value),
              !.out = Append(@, [op |-> "result", ev |-> NoEvent, val |-> value])]

(* await run_agent(agent, ...): the Job is suspended in _rate_limit / run_async. *)
(* The call is recorded with the course being processed (0 for the final   *)
(* orchestration) and, once chapter localization has returned, the number   *)
(* of sections it found (-1: not known).                                    *)
Suspend(w, agent) ==
    [w EXCEPT !.jb.pc = agent,
              !.h.calls = Append(@, [agent |-> agent, shape |-> "pending",
                                     course |-> IF agent = "ChiefOrchestrator" THEN 0
                                                ELSE w.jb.idx,
                                     sections |-> -1])]

(* run_agent has returned a value of this shape (or raised). *)
Returned(w, shape) ==
    [w EXCEPT !.h.calls = [@ EXCEPT ![Len(@)].shape = shape]]

LoggedEvents(out) ==
    LET sel == SelectSeq(out, LAMBDA x : x.op = "log")
    IN  [i \in DOMAIN sel |-> sel[i].ev]

PushedEvents(out) ==
    LET sel == SelectSeq(out, LAMBDA x : x.op \in {"log", "bcast"})
    IN  [i \in DOMAIN sel |-> sel[i].ev]

ResultWrites(out) ==
    LET sel == SelectSeq(out, LAMBDA x : x.op = "result")
    IN  [i \in DOMAIN sel |-> sel[i].val]

---------------------------------------------------------------------------
(* Stage wrappers of agents.py: what each makes of run_agent's return value. *)

DefaultSyllabus == [shape |-> "dict", keys |-> {"course_name", "modules", "assessments"},
                    modules |-> <<>>]
StubSyllabus    == [shape |-> "dict", keys |-> {"course_name"}, modules |-> <<>>]
DefaultScope    == [shape |-> "dict", keys |-> {"exam_date", "topics"},
                    exam_date |-> "", topics |-> <<>>]
StubScope       == [shape |-> "dict", keys |-> {"topics"}, exam_date |-> "", topics |-> <<>>]

(* agents.py:337-339 *)
analyze_syllabus(result) == IF result.shape # "dict" THEN DefaultSyllabus ELSE result

(* agents.py:356-358 *)
analyze_exam_scope(result) == IF result.shape # "dict" THEN DefaultScope ELSE result

(* agents.py:366-371 *)
topic_names_of(topics) == [i \in DOMAIN topics |-> topics[i].name]

UnidentifiedGuide_empty(topic_names) == <<>>

(* agents.py:394-396 *)
UnidentifiedGuide(topic_names) ==
    [i \in DOMAIN topic_names |->
        [shape |-> "dict", keys |-> {"topic", "resource", "estimated_hours"},
         topic |-> topic_names[i], resource |-> "Textbook (section not identified)",
         estimated_hours |-> DEFAULT_HOURS]]

(* agents.py:423-427 *)
guide_of(guide_result) ==
    IF guide_result.shape = "dict" /\ "mappings" \in guide_result.keys
    THEN guide_result.mappings
    ELSE IF guide_result.shape = "list" THEN guide_result.items
    ELSE <<>>

(* agents.py:486-490: the value of "tasks" may itself be of any shape. *)
EmptyList == [shape |-> "list", items |-> <<>>]
plan_of(result) ==
    IF result.shape = "dict" /\ "tasks" \in result.keys
    THEN result.tasks
    ELSE IF result.shape = "list" THEN [shape |-> "list", items |-> result.items]
    ELSE EmptyList

---------------------------------------------------------------------------
(* run_agent_workflow, main.py:150-291 *)

(* main.py:154-157: a later course with the same code overwrites the colour. *)
course_color_map(courses, code) ==
    LET idxs == {i \in DOMAIN courses : courses[i].code = code}
    IN  IF idxs = {} THEN COURSE_COLORS[1]
        ELSE LET i == CHOOSE k \in idxs : \A m \in idxs : m <= k
             IN  COURSE_COLORS[((i - 1) % Len(COURSE_COLORS)) + 1]

inject_color_into_course(courses, final_plan) ==
    IF final_plan.shape = "list"
    THEN LET tasks == final_plan.items
         IN  [final_plan EXCEPT !.items =
                [i \in DOMAIN tasks |->
                    [tasks[i] EXCEPT !.course = course_color_map(courses, tasks[i].course)]]]
    ELSE final_plan

(* main.py:259-263 *)
inject_color(courses, final_plan) ==
    IF final_plan.shape = "list"
    THEN LET tasks == final_plan.items
         IN  [final_plan EXCEPT !.items =
                [i \in DOMAIN tasks |->
                    IF tasks[i].courseColor = ""
                    THEN [tasks[i] EXCEPT
                            !.courseColor = course_color_map(courses, tasks[i].course)]
                    ELSE tasks[i]]]
    ELSE final_plan

(* main.py:186-189 *)
clean_extracted(extracted) ==
    IF extracted # "" /\ Lower(extracted) \in {"unknown", "n/a", "none", ""}
    THEN "" ELSE extracted

resolve_exam_date(manual, extracted) ==
    IF manual # "" THEN manual ELSE clean_extracted(extracted)

fallback_topics_names_only(modules) ==
    LET named == SelectSeq(modules, LAMBDA m : m.shape = "dict" /\ m.name # "")
    IN  [i \in DOMAIN named |-> [name |-> named[i].name, importance |-> "medium"]]

(* main.py:199-205: a module that is not a mapping is skipped; a missing    *)
(* "topics" or "name" key reads as the empty list / the empty string.       *)
RECURSIVE fallback_topics(_)
fallback_topics(modules) ==
    IF modules = <<>> THEN <<>>
    ELSE LET m == Head(modules)
             fromTopics == [i \in DOMAIN m.topics |->
                               [name |-> m.topics[i], importance |-> "medium"]]
             fromName == IF m.topics = <<>> /\ m.name # ""
                         THEN <<[name |-> m.name, importance |-> "medium"]>>
                         ELSE <<>>
         IN  (IF m.shape = "dict" THEN fromTopics \o fromName ELSE <<>>)
                 \o fallback_topics(Tail(modules))

(* agents.py:457-466: the exam date of one compressed course record. *)
compressed_exam_date(cd) ==
    LET d0 == IF cd.course.examDate # "" THEN cd.course.examDate
              ELSE Get(cd.scope, "exam_date", "")
        d1 == IF d0 # "" /\ Lower(d0) \in {"unknown", "n/a", "none"} THEN "" ELSE d0
    IN  IF d1 # "" THEN d1 ELSE "unknown"

(* Names as Python sees them: the characters of each name the model uses,   *)
(* str.lower() character by character, and the operator "in" on strings.    *)
Chars(name) ==
    CASE name = ""   -> <<>>
      [] name = "A"  -> <<"A">>
      [] name = "a"  -> <<"a">>
      [] name = "B"  -> <<"B">>
      [] name = "AB" -> <<"A", "B">>
      [] name = "ab" -> <<"a", "b">>
      [] name = "M1" -> <<"M", "1">>
      [] name = "M2" -> <<"M", "2">>

LowerChar(c) ==
    CASE c = "A" -> "a"
      [] c = "B" -> "b"
      [] c = "M" -> "m"
      [] OTHER   -> c

lower(name) == [i \in DOMAIN Chars(name) |-> LowerChar(Chars(name)[i])]

Contains(hay, needle) ==
    \E i \in 0..(Len(hay) - Len(needle)) : SubSeq(hay, i + 1, i + Len(needle)) = needle

matches_same_case(g_topic, name) == g_topic = name

(* agents.py:448 *)
matches(g_topic, name) ==
    \/ lower(g_topic) = lower(name)
    \/ Contains(lower(g_topic), lower(name))
    \/ Contains(lower(name), lower(g_topic))

(* agents.py:445-451: the index of the entry the loop breaks at, 0 if none *)
first_match(name, guide) ==
    LET hits == {i \in DOMAIN guide :
                    guide[i].shape = "dict" /\ matches(Get(guide[i], "topic", ""), name)}
    IN  IF hits = {} THEN 0 ELSE CHOOSE i \in hits : \A k \in hits : i <= k

topics_summary_unidentified(topics, guide) ==
    [i \in DOMAIN topics |->
        LET g == first_match(topics[i].name, guide)
        IN  [topic      |-> topics[i].name,
             importance |-> topics[i].importance,
             resource   |-> IF g = 0 THEN "Textbook (section not identified)"
                            ELSE Get(guide[g], "resource", "Textbook"),
             hours      |-> IF g = 0 THEN DEFAULT_HOURS
                            ELSE Get(guide[g], "estimated_hours", DEFAULT_HOURS)]]

(* agents.py:438-455: every topic here is a mapping with a name *)
topics_summary(topics, guide) ==
    [i \in DOMAIN topics |->
        LET g == first_match(topics[i].name, guide)
        IN  [topic      |-> topics[i].name,
             importance |-> topics[i].importance,
             resource   |-> IF g = 0 THEN "Textbook"
                            ELSE Get(guide[g], "resource", "Textbook"),
             hours      |-> IF g = 0 THEN DEFAULT_HOURS
                            ELSE Get(guide[g], "estimated_hours", DEFAULT_HOURS)]]

(* agents.py:432-466 *)
compress(data) ==
    [i \in DOMAIN data |->
        [code      |-> data[i].course.code,
         exam_date |-> compressed_exam_date(data[i]),
         topics    |-> topics_summary(Get(data[i].scope, "topics", <<>>), data[i].guide)]]

CurCourse(w) == w.jb.req.courses[w.jb.idx]

Except_no_descriptor(w, error_msg) ==
    LET w1 == add_log(w, "System", <<"Error", error_msg>>, "error")
        w3 == broadcast_log(w1, "System", <<"Pipeline failed", error_msg>>, "error")
    IN  [w3 EXCEPT !.jb.pc = "done", !.jb.exc = error_msg,
                   !.h.callsAtExc = Len(w.h.calls)]

(* main.py:278-291 *)
Except(w, error_msg) ==
    LET w1 == add_log(w, "System", <<"Error", error_msg>>, "error")
        w2 == store_result(w1, ErrorDescriptor(error_msg))
        w3 == broadcast_log(w2, "System", <<"Pipeline failed", error_msg>>, "error")
    IN  [w3 EXCEPT !.jb.pc = "done", !.jb.exc = error_msg,
                   !.h.callsAtExc = Len(w.h.calls)]

Final_two_calls(w) ==
    LET w1 == add_log(w, "ChiefOrchestrator", <<"Synthesizing schedule">>, "loading")
        w2 == [w1 EXCEPT !.h.compressed = compress(w.jb.all_course_data)]
    IN  Suspend(Suspend(w2, "ChiefOrchestrator"), "ChiefOrchestrator")

(* main.py:251-257 *)
Final(w) ==
    LET w1 == add_log(w, "ChiefOrchestrator", <<"Synthesizing schedule">>, "loading")
        w2 == [w1 EXCEPT !.h.compressed = compress(w.jb.all_course_data)]
    IN  Suspend(w2, "ChiefOrchestrator")

RECURSIVE StartCourse(_)
RECURSIVE AfterSyllabus(_, _)
RECURSIVE AfterScope(_, _)
RECURSIVE AfterTextbook(_, _, _)

(* main.py:163-172 *)
StartCourse(w) ==
    LET c  == CurCourse(w)
        w1 == add_log(w, "SyllabusExpert", <<"Analyzing syllabus", c.code>>, "loading")
    IN  IF c.syllabus_files
        THEN Suspend(w1, "SyllabusExpert")
        ELSE AfterSyllabus(w1, StubSyllabus)

(* main.py:173-181 *)
AfterSyllabus(w, syllabus_info) ==
    LET c  == CurCourse(w)
        w1 == add_log(w, "SyllabusExpert", <<"Syllabus extracted", c.code>>, "success")
        w2 == add_log(w1, "ExamScopeAnalyst", <<"Analyzing midterm overview", c.code>>, "loading")
        w3 == [w2 EXCEPT !.jb.syllabus_info = syllabus_info]
    IN  IF c.overview_files
        THEN Suspend(w3, "ExamScopeAnalyst")
        ELSE AfterScope(w3, StubScope)

(* main.py:182-229 and agents.py:361-390 *)
AfterScope(w, scope_info0) ==
    LET c  == CurCourse(w)
        topics0  == Get(scope_info0, "topics", <<>>)
        resolved == resolve_exam_date(c.examDate, Get(scope_info0, "exam_date", ""))
        w1 == IF resolved # ""
              THEN add_log(w, "ExamScopeAnalyst",
                           <<"Exam date", c.code, resolved,
                             IF c.examDate = "" THEN "from midterm overview"
                                                ELSE "manual override">>, "success")
              ELSE w
        modules  == Get(w.jb.syllabus_info, "modules", <<>>)
        tryFall  == Len(topics0) = 0 /\ modules # <<>>
        fall     == fallback_topics(modules)
        w2 == IF tryFall
              THEN add_log(w1, "ExamScopeAnalyst", <<"Falling back to syllabus modules", c.code>>, "loading")
              ELSE w1
        useFall  == tryFall /\ fall # <<>>
        scope_info == IF useFall
                      THEN [scope_info0 EXCEPT !.topics = fall, !.keys = @ \cup {"topics"}]
                      ELSE scope_info0
        w3 == IF useFall
              THEN add_log(w2, "ExamScopeAnalyst", <<"Fallback topics derived", c.code>>, "success")
              ELSE w2
        w4 == add_log(w3, "ExamScopeAnalyst", <<"Exam scope", c.code>>, "success")
        w5 == add_log(w4, "TocNavigator", <<"Scanning textbook TOC", c.code>>, "loading")
        w6 == [w5 EXCEPT !.jb.scope_info = scope_info, !.jb.resolved = resolved,
                         !.h.scoped = Append(@, topics0)]
        topic_names == topic_names_of(Get(scope_info, "topics", <<>>))
    IN  IF c.textbook_files
        THEN IF topic_names = <<>>
             THEN AfterTextbook(w6, <<>>, TRUE)
             ELSE Suspend(w6, "TocNavigator")
        ELSE AfterTextbook(w6, <<>>, FALSE)

(* main.py:224-249, then the next course or the final orchestration *)
AfterTextbook(w, guide_info, scanned) ==
    LET c  == CurCourse(w)
        w1 == add_log(w, "TocNavigator",
                      <<IF scanned THEN "TOC scan complete" ELSE "No textbook uploaded, skipping",
                        c.code>>, "success")
        w2 == add_log(w1, "StudyGuideGuru", <<"Resource mapping", c.code>>, "success")
        w3 == add_log(w2, "System", <<"Course fully analyzed", c.code>>, "success")
        cd == [course   |-> [code |-> c.code, examDate |-> w.jb.resolved],
               syllabus |-> w.jb.syllabus_info,
               scope    |-> w.jb.scope_info,
               guide    |-> guide_info]
        w4 == [w3 EXCEPT !.jb.all_course_data = Append(@, cd),
                         !.jb.syllabus_info = StubSyllabus,
                         !.jb.scope_info = StubScope,
                         !.jb.resolved = "",
                         !.jb.sections = <<>>]
    IN  IF w.jb.idx < Len(w.jb.req.courses)
        THEN StartCourse([w4 EXCEPT !.jb.idx = @ + 1])
        ELSE Final(w4)

(* agents.py:390-396: toc_result.get raises AttributeError unless a mapping *)
AfterToc(w, toc_result) ==
    IF toc_result.shape # "dict"
    THEN Except(w, "AttributeError")
    ELSE LET sections == Get(toc_result, "relevant_sections", <<>>)
             topic_names == topic_names_of(Get(w.jb.scope_info, "topics", <<>>))
             w1 == [w EXCEPT !.h.calls = [@ EXCEPT ![Len(@)].sections = Len(sections)]]
         IN  IF sections = <<>>
             THEN AfterTextbook(w1, UnidentifiedGuide(topic_names), TRUE)
             ELSE Suspend([w1 EXCEPT !.jb.sections = sections], "StudyGuideGuru")

(* agents.py:421-427 *)
AfterGuide(w, guide_result) == AfterTextbook(w, guide_of(guide_result), TRUE)

(* main.py:257-276; line 267 iterates final_plan and raises TypeError when  *)
(* it is a number, a boolean or null.                                       *)
AfterPlan(w, result) ==
    LET final_plan == inject_color(w.jb.req.courses, plan_of(result))
        w1 == store_result(w, [shape |-> final_plan.shape, items |-> final_plan.items,
                               error |-> "", status |-> ""])
    IN  IF final_plan.shape = "scalar"
        THEN Except(w1, "TypeError")
        ELSE LET w2 == add_log(w1, "ChiefOrchestrator", <<"Plan complete">>, "success")
                 w3 == broadcast_log(w2, "System", <<"All agents finished.">>, "success")
             IN  [w3 EXCEPT !.jb.pc = "done"]

---------------------------------------------------------------------------
(* State of the hub *)

NoJob == [pc |-> "none", session |-> "", req |-> [courses |-> <<>>], idx |-> 0, n |-> 0,
          syllabus_info |-> StubSyllabus, scope_info |-> StubScope, resolved |-> "",
          sections |-> <<>>, all_course_data |-> <<>>, exc |-> ""]
NoAnswer == [shape |-> "none", keys |-> {}, tasks |-> EmptyList, items |-> <<>>]
(* History of a Job: the events it emitted, the values it wrote to the       *)
(* Result slot, the external calls it issued with the shape of what each     *)
(* returned, the number of calls issued when its exception handler ran, and  *)
(* the value ScheduleSynthesis returned.                                     *)
(* Also: the topic list ExamScopeAnalysis yielded for each course, before    *)
(* the fallback, and the compressed records built for ScheduleSynthesis.    *)
NoHist == [emitted |-> <<>>, writes |-> <<>>, calls |-> <<>>, callsAtExc |-> 0,
           answer |-> NoAnswer, scoped |-> <<>>, compressed |-> <<>>]
(* A stream connection: its queue (items: everything put into it, pos: how   *)
(* many of them the generator has yielded) and, as history, the Job in       *)
(* flight when it attached (0: none) and the length of the backlog copied.   *)
(* A connection that was closed by its client keeps, as history, the length *)
(* of the session's log and the other registered connections at that time.  *)
NoQueue == [state |-> "unused", session |-> "", items |-> <<>>, pos |-> 0,
            during |-> 0, backlog |-> 0, left |-> 0, peers |-> {}]

Agents == {"SyllabusExpert", "ExamScopeAnalyst", "TocNavigator", "StudyGuideGuru",
           "ChiefOrchestrator"}

Worker(j) == [id |-> j, jb |-> jobs[j], h |-> hist[j], out |-> <<>>]

JobsOf(s) == {j \in JobIds : jobs[j].pc # "none" /\ jobs[j].session = s}
Active(j) == jobs[j].pc \notin {"none", "done"}
(* Job ids are given in submission order. *)
LatestJob(s) == IF JobsOf(s) = {} THEN 0
                ELSE CHOOSE j \in JobsOf(s) : \A k \in JobsOf(s) : k <= j

Registered_any(s) ==
    UNION {{session_queues[x][i] : i \in DOMAIN session_queues[x]} : x \in Sessions}

(* the queues in session_queues[s], main.py:307-308 *)
Registered(s) == {session_queues[s][i] : i \in DOMAIN session_queues[s]}

Remove(list, q) == SelectSeq(list, LAMBDA x : x # q)

Commit_prepend(w) ==
    LET s == w.jb.session
        writes == ResultWrites(w.out)
    IN  /\ jobs' = [jobs EXCEPT ![w.id] = w.jb]
        /\ hist' = [hist EXCEPT ![w.id] = w.h]
        /\ session_logs' = [session_logs EXCEPT ![s] = LoggedEvents(w.out) \o @]
        /\ queues' = [q \in QueueIds |->
                        IF q \in Registered(s)
                        THEN [queues[q] EXCEPT !.items = @ \o PushedEvents(w.out)]
                        ELSE queues[q]]
        /\ session_results' = IF writes = <<>> THEN session_results
                              ELSE [session_results EXCEPT ![s] = Last(writes)]
        /\ UNCHANGED session_queues

(* The effects of a segment, applied in program order: appends to the       *)
(* session's log, put_nowait on every queue registered for the session      *)
(* (queues are unbounded, QueueFull never happens), writes of the result.   *)
Commit(w) ==
    LET s == w.jb.session
        writes == ResultWrites(w.out)
    IN  /\ jobs' = [jobs EXCEPT ![w.id] = w.jb]
        /\ hist' = [hist EXCEPT ![w.id] = w.h]
        /\ session_logs' = [session_logs EXCEPT ![s] = @ \o LoggedEvents(w.out)]
        /\ queues' = [q \in QueueIds |->
                        IF q \in Registered(s)
                        THEN [queues[q] EXCEPT !.items = @ \o PushedEvents(w.out)]
                        ELSE queues[q]]
        /\ session_results' = IF writes = <<>> THEN session_results
                              ELSE [session_results EXCEPT ![s] = Last(writes)]
        /\ UNCHANGED session_queues

---------------------------------------------------------------------------
(* HTTP handlers of main.py *)

(* POST /api/plan, main.py:84-93 *)
generate_plan(s, req) ==
    /\ \E j \in JobIds :
        /\ jobs[j].pc = "none"
        /\ \A k \in JobIds : k < j => jobs[k].pc # "none"
        /\ jobs' = [jobs EXCEPT ![j] = [NoJob EXCEPT !.pc = "created", !.session = s,
                                                      !.req = req]]
    /\ session_logs' = [session_logs EXCEPT ![s] = <<>>]
    /\ session_queues' = [session_queues EXCEPT ![s] = <<>>]
    /\ UNCHANGED <<session_results, queues, hist>>
    /\ UNCHANGED <<rateVars, pureVars>>

(* GET /api/plan/{sessionId}/logs, main.py:95-97 *)
get_logs(s) == session_logs[s]

(* GET /api/plan/{sessionId}/result, main.py:99-103 *)
get_result(s) == IF session_results[s] # NoKey THEN session_results[s] ELSE Processing

(* GET /api/plan/{sessionId}/stream, main.py:105-118: the queue is         *)
(* registered and the existing log is copied into it; Queue.put on an       *)
(* unbounded queue never suspends, so the handler is one segment.           *)
catchup_skip_first(existing_logs) ==
    IF existing_logs = <<>> THEN <<>> ELSE Tail(existing_logs)

catchup(existing_logs) == existing_logs

stream_logs(q, s) ==
    /\ queues[q].state = "unused"
    /\ \A k \in QueueIds : k < q => queues[k].state # "unused"
    /\ session_queues' = [session_queues EXCEPT ![s] = Append(@, q)]
    /\ queues' = [queues EXCEPT ![q] =
                    [state |-> "open", session |-> s,
                     items |-> catchup(session_logs[s]), pos |-> 0,
                     during |-> IF LatestJob(s) # 0 /\ Active(LatestJob(s))
                                THEN LatestJob(s) ELSE 0,
                     backlog |-> Len(session_logs[s]), left |-> 0, peers |-> {}]]
    /\ UNCHANGED <<session_logs, session_results, jobs, hist>>
    /\ UNCHANGED <<rateVars, pureVars>>

cleanup_all(q) ==
    LET s == queues[q].session
    IN  session_queues' = [session_queues EXCEPT ![s] = <<>>]

(* main.py:135-138: the finally clause of event_generator *)
cleanup(q) ==
    LET s == queues[q].session
    IN  session_queues' = [session_queues EXCEPT ![s] = Remove(@, q)]

(* main.py:120-134: one queue.get and the yield of its item; the stream     *)
(* ends after an item that carries _done.                                   *)
ends_stream_no_break(log) == FALSE

ends_stream(log) == log.done

event_generator(q) ==
    /\ queues[q].state = "open"
    /\ queues[q].pos < Len(queues[q].items)
    /\ LET log == queues[q].items[queues[q].pos + 1]
       IN  IF ends_stream(log)
           THEN /\ queues' = [queues EXCEPT ![q].pos = @ + 1, ![q].state = "ended",
                                            ![q].items = SubSeq(@, 1, queues[q].pos + 1)]
                /\ cleanup(q)
           ELSE /\ queues' = [queues EXCEPT ![q].pos = @ + 1]
                /\ UNCHANGED session_queues
    /\ UNCHANGED <<session_logs, session_results, jobs, hist>>
    /\ UNCHANGED <<rateVars, pureVars>>

(* The client closes the connection: the generator is closed at its yield   *)
(* or at queue.get and its finally clause runs; the queue object is garbage. *)
Disconnect(q) ==
    /\ queues[q].state = "open"
    /\ queues' = [queues EXCEPT ![q] =
                    [NoQueue EXCEPT !.state = "disconnected",
                                    !.session = queues[q].session,
                                    !.left = Len(session_logs[queues[q].session]),
                                    !.peers = Registered(queues[q].session) \ {q}]]
    /\ cleanup(q)
    /\ UNCHANGED <<session_logs, session_results, jobs, hist>>
    /\ UNCHANGED <<rateVars, pureVars>>

---------------------------------------------------------------------------
(* The background task, one action per segment between two suspensions *)

(* main.py:150-172: the task starts running *)
JobStart(j) ==
    /\ jobs[j].pc = "created"
    /\ LET w0 == [Worker(j) EXCEPT !.jb.pc = "running"]
       IN  Commit(IF w0.jb.req.courses = <<>>
                  THEN Final(w0)
                  ELSE StartCourse([w0 EXCEPT !.jb.idx = 1]))
    /\ UNCHANGED <<rateVars, pureVars>>

SyllabusReturns(j, result) ==
    /\ jobs[j].pc = "SyllabusExpert"
    /\ Commit(AfterSyllabus(Returned(Worker(j), result.shape), analyze_syllabus(result)))
    /\ UNCHANGED <<rateVars, pureVars>>

ScopeReturns(j, result) ==
    /\ jobs[j].pc = "ExamScopeAnalyst"
    /\ Commit(AfterScope(Returned(Worker(j), result.shape), analyze_exam_scope(result)))
    /\ UNCHANGED <<rateVars, pureVars>>

TocReturns(j, result) ==
    /\ jobs[j].pc = "TocNavigator"
    /\ Commit(AfterToc(Returned(Worker(j), result.shape), result))
    /\ UNCHANGED <<rateVars, pureVars>>

GuideReturns(j, result) ==
    /\ jobs[j].pc = "StudyGuideGuru"
    /\ Commit(AfterGuide(Returned(Worker(j), result.shape), result))
    /\ UNCHANGED <<rateVars, pureVars>>

PlanReturns(j, result) ==
    /\ jobs[j].pc = "ChiefOrchestrator"
    /\ Commit(AfterPlan([Returned(Worker(j), result.shape) EXCEPT !.h.answer = result],
                        result))
    /\ UNCHANGED <<rateVars, pureVars>>

(* The external call raises (the provider rejects or fails the request):    *)
(* the exception reaches the handler of main.py:278.                        *)
CallRaises(j) ==
    /\ jobs[j].pc \in Agents
    /\ Commit(Except(Returned(Worker(j), "raise"), "APIError"))
    /\ UNCHANGED <<rateVars, pureVars>>

---------------------------------------------------------------------------
(* The rate limiter, agents.py:27-39, with overlapping callers *)

Release(t) == recent' = IF Len(recent) < 2 THEN Append(recent, t) ELSE <<recent[2], t>>

must_wait_never(t, last) == FALSE

(* agents.py:33-35 *)
must_wait(t, last) == (t - last) < RPM_DELAY

(* agents.py:33-39 when no wait is needed: no suspension, the call is let through *)
RateLimitPass(p) ==
    /\ callers[p].pc = "idle"
    /\ ~must_wait(now, last_api_call)
    /\ last_api_call' = now
    /\ callers' = [callers EXCEPT ![p] = [pc |-> "calling", wake |-> 0]]
    /\ Release(now)
    /\ UNCHANGED now
    /\ UNCHANGED <<hubVars, pureVars>>

(* agents.py:33-38: the caller computes its wait from the timestamp it read *)
(* and is suspended in asyncio.sleep(wait)                                   *)
RateLimitSleep(p) ==
    /\ callers[p].pc = "idle"
    /\ must_wait(now, last_api_call)
    /\ callers' = [callers EXCEPT ![p] = [pc |-> "sleeping",
                                          wake |-> now + (RPM_DELAY - (now - last_api_call))]]
    /\ UNCHANGED <<now, last_api_call, recent>>
    /\ UNCHANGED <<hubVars, pureVars>>

(* agents.py:39: the sleep is over, the caller records the time and goes on *)
RateLimitWake(p) ==
    /\ callers[p].pc = "sleeping"
    /\ now >= callers[p].wake
    /\ last_api_call' = now
    /\ callers' = [callers EXCEPT ![p] = [pc |-> "calling", wake |-> 0]]
    /\ Release(now)
    /\ UNCHANGED now
    /\ UNCHANGED <<hubVars, pureVars>>

(* agents.py:280-291: the external call of this caller completes; its Job   *)
(* may then issue its next call                                             *)
CallCompletes(p) ==
    /\ callers[p].pc = "calling"
    /\ callers' = [callers EXCEPT ![p] = [pc |-> "idle", wake |-> 0]]
    /\ UNCHANGED <<now, last_api_call, recent>>
    /\ UNCHANGED <<hubVars, pureVars>>

(* time passes *)
Tick ==
    /\ now < RPM_DELAY + MaxTime
    /\ now' = now + 1
    /\ UNCHANGED <<last_api_call, callers, recent>>
    /\ UNCHANGED <<hubVars, pureVars>>

---------------------------------------------------------------------------
(* run_agent's parsing of the final response, agents.py:293-316.  A text is *)
(* a sequence of tokens: the fence ```, the word json, the text of one of   *)
(* two JSON values, and text that is not JSON; white space is not shown.    *)

MaxText == 6          \* tokens in a response text

Fence  == "F"
Label  == "J"
Values == {"v1", "v2"}
Tokens == {Fence, Label, "v1", "v2", "x"}
Texts  == UNION {[1..n -> Tokens] : n \in 0..MaxText}

NoResponse == "none"
EmptyDict  == "{}"

(* json.loads: a text parses when it is the text of exactly one value *)
json_loads(text) ==
    IF Len(text) = 1 /\ text[1] \in Values
    THEN [ok |-> TRUE, value |-> text[1]]
    ELSE [ok |-> FALSE, value |-> EmptyDict]

(* sep in text, text.split(sep)[0] and text.split(sep)[1] *)
Occurs(text, sep, i) ==
    i + Len(sep) - 1 <= Len(text) /\ SubSeq(text, i, i + Len(sep) - 1) = sep
Has(text, sep) == \E i \in DOMAIN text : Occurs(text, sep, i)
FirstAt(text, sep) ==
    CHOOSE i \in DOMAIN text :
        Occurs(text, sep, i) /\ \A k \in 1..(i - 1) : ~Occurs(text, sep, k)
Piece0(text, sep) ==
    IF Has(text, sep) THEN SubSeq(text, 1, FirstAt(text, sep) - 1) ELSE text
Piece1(text, sep) ==
    Piece0(SubSeq(text, FirstAt(text, sep) + Len(sep), Len(text)), sep)

(* agents.py:294-316 *)
parse_response(text) ==
    IF text = <<>> THEN EmptyDict
    ELSE IF json_loads(text).ok THEN json_loads(text).value
    ELSE IF Has(text, <<Fence, Label>>)
         THEN json_loads(Piece0(Piece1(text, <<Fence, Label>>), <<Fence>>)).value
    ELSE IF Has(text, <<Fence>>)
         THEN json_loads(Piece0(Piece1(text, <<Fence>>), <<Fence>>)).value
    ELSE EmptyDict

(* agents.py:280-291: the runner delivers the final response text *)
FinalResponse(text) ==
    /\ response # "pending"
    /\ final_text' = text
    /\ response' = "pending"
    /\ UNCHANGED <<courses_data, compressed>>
    /\ UNCHANGED <<hubVars, rateVars, bookVars>>

(* agents.py:293-316: run_agent returns *)
RunAgentReturns ==
    /\ response = "pending"
    /\ response' = parse_response(final_text)
    /\ UNCHANGED <<final_text, courses_data, compressed>>
    /\ UNCHANGED <<hubVars, rateVars, bookVars>>

(* agents.py:430-466: generate_study_plan builds the compressed records *)
generate_study_plan(data) ==
    /\ courses_data' = data
    /\ compressed' = compress(data)
    /\ UNCHANGED <<final_text, response>>
    /\ UNCHANGED <<hubVars, rateVars, bookVars>>

---------------------------------------------------------------------------
(* Page sampling, agents.py:64-79, 107-129 and 400-409.  A textbook is the  *)
(* list of its pages, each page the number of characters extract_text()     *)
(* gives for it (0: no text, or white space only).  A text is a sequence of *)
(* pieces, each the first n characters of one source string: the part of    *)
(* one page (its "[Page p]\n" header and its text), the separator "\n\n"    *)
(* of join, or the truncation marker.                                       *)

SAMPLE_LIMIT == 15000   \* agents.py:127, 408
MARKER_LEN == 18        \* agents.py:128, 409  len("\n[...truncated...]")
PAGE_SPAN == 3          \* agents.py:124, 401  start + 3
DEFAULT_START == 1      \* agents.py:123, 401
DEFAULT_END_PAGE == 10  \* agents.py:401

Min(a, b) == IF a < b THEN a ELSE b
Max(a, b) == IF a > b THEN a ELSE b

NoRanges == <<[keys |-> {}, start |-> 0, end |-> 0]>>

(* len(f"[Page {p}]\n") *)
HeaderLen(p) == 8 + (IF p < 10 THEN 1 ELSE 2)
PagePart(book, p) == [kind |-> "page", page |-> p, n |-> HeaderLen(p) + book[p]]
Separator == [kind |-> "sep", page |-> 0, n |-> 2]
Marker == [kind |-> "marker", page |-> 0, n |-> MARKER_LEN]

RECURSIVE StrLen(_)
StrLen(text) == IF text = <<>> THEN 0 ELSE Head(text).n + StrLen(Tail(text))

(* text[:k] *)
RECURSIVE Slice(_, _)
Slice(text, k) ==
    IF text = <<>> \/ k <= 0 THEN <<>>
    ELSE IF Head(text).n <= k THEN <<Head(text)>> \o Slice(Tail(text), k - Head(text).n)
    ELSE <<[Head(text) EXCEPT !.n = k]>>

(* "\n\n".join(text_parts) *)
RECURSIVE Join(_)
Join(parts) ==
    IF Len(parts) <= 1 THEN parts
    ELSE <<Head(parts), Separator>> \o Join(Tail(parts))

(* agents.py:73-78: the pages read for one range, in order; pages without   *)
(* text give no part                                                        *)
PagesOfRange(book, pr) ==
    LET start == Max(0, Get(pr, "start", 1) - 1)
        end   == Min(Get(pr, "end", start + 1), Len(book))
        all   == [k \in 1..Max(0, end - start) |-> start + k]
    IN  SelectSeq(all, LAMBDA p : book[p] > 0)

RECURSIVE Flatten(_)
Flatten(lists) == IF lists = <<>> THEN <<>> ELSE Head(lists) \o Flatten(Tail(lists))

(* agents.py:64-79 *)
extract_pages_by_ranges(book, ranges) ==
    LET read == Flatten([i \in DOMAIN ranges |-> PagesOfRange(book, ranges[i])])
    IN  Join([k \in DOMAIN read |-> PagePart(book, read[k])])

truncate_at_limit(text) ==
    IF StrLen(text) >= SAMPLE_LIMIT THEN Slice(text, SAMPLE_LIMIT) \o <<Marker>> ELSE text

(* agents.py:127-128, 408-409 *)
truncate(text) ==
    IF StrLen(text) > SAMPLE_LIMIT THEN Slice(text, SAMPLE_LIMIT) \o <<Marker>> ELSE text

(* agents.py:121-125 *)
clamped(ranges) ==
    [i \in DOMAIN ranges |->
        LET start == Get(ranges[i], "start", DEFAULT_START)
        IN  [keys |-> {"start", "end"}, start |-> start,
             end |-> Min(start + PAGE_SPAN, Get(ranges[i], "end", start + PAGE_SPAN))]]

(* agents.py:400-403 *)
section_ranges(sections) ==
    [i \in DOMAIN sections |->
        [keys |-> {"start", "end"},
         start |-> Get(sections[i], "start_page", DEFAULT_START),
         end |-> Min(Get(sections[i], "start_page", DEFAULT_START) + PAGE_SPAN,
                     Get(sections[i], "end_page", DEFAULT_END_PAGE))]]

Sample(book, asked, ranges) ==
    /\ textbook' = book
    /\ requested' = asked
    /\ page_ranges' = ranges
    /\ pages_read' = [i \in DOMAIN ranges |-> PagesOfRange(book, ranges[i])]
    /\ sampled' = extract_pages_by_ranges(book, ranges)
    /\ relevant_text' = truncate(extract_pages_by_ranges(book, ranges))
    /\ UNCHANGED <<final_text, response, courses_data, compressed>>
    /\ UNCHANGED <<hubVars, rateVars>>

(* agents.py:107-129: the tool, called with parsed page_ranges_json *)
load_textbook_pages(book, ranges) == Sample(book, ranges, clamped(ranges))

(* agents.py:398-409: analyze_textbook's pre-extraction for the mapping call *)
presample(book, sections) ==
    Sample(book,
           [i \in DOMAIN sections |->
               [keys  |-> {IF k = "start_page" THEN "start" ELSE "end" : k \in sections[i].keys},
                start |-> sections[i].start_page, end |-> sections[i].end_page]],
           section_ranges(sections))

---------------------------------------------------------------------------
(* Inputs: requests, uploaded files and what the external agents return *)

Course(code, examDate, syl, ovw, txt) ==
    [code |-> code, examDate |-> examDate, syllabus_files |-> syl,
     overview_files |-> ovw, textbook_files |-> txt]

TopicA  == [name |-> "A", importance |-> "high"]
ModuleA == [shape |-> "dict", name |-> "M1", topics |-> <<"A">>]
(* a module without topics, a module without topics and name, a bare string *)
ModuleB     == [shape |-> "dict", name |-> "M2", topics |-> <<>>]
ModuleBlank == [shape |-> "dict", name |-> "", topics |-> <<>>]
ModuleText  == [shape |-> "scalar", name |-> "", topics |-> <<>>]

SyllabusDict(keys, modules) == [shape |-> "dict", keys |-> keys, modules |-> modules]
ScopeDict(keys, exam_date, topics) ==
    [shape |-> "dict", keys |-> keys, exam_date |-> exam_date, topics |-> topics]
TocDict(keys, sections) ==
    [shape |-> "dict", keys |-> keys, relevant_sections |-> sections]
GuideValue(shape, keys, mappings, items) ==
    [shape |-> shape, keys |-> keys, mappings |-> mappings, items |-> items]
PlanValue(shape, keys, tasks, items) ==
    [shape |-> shape, keys |-> keys, tasks |-> tasks, items |-> items]
Task(date, course) == [date |-> date, course |-> course, courseColor |-> ""]
SectionA == [chapter |-> "Ch 1", start_page |-> 1, end_page |-> 5]
Mapping(keys, topic, resource, hours) ==
    [shape |-> "dict", keys |-> keys, topic |-> topic, resource |-> resource,
     estimated_hours |-> hours]
MappingKeys == {"topic", "resource", "estimated_hours"}
MappingA == Mapping(MappingKeys, "A", "Ch 1.1 (pp. 1-5)", 1)

SyllabusOK == SyllabusDict({"course_name", "modules"}, <<ModuleA>>)
ScopeOK    == ScopeDict({"exam_date", "topics"}, "2025-05-03", <<TopicA>>)
TocOK      == TocDict({"relevant_sections"}, <<SectionA>>)
GuideOK    == GuideValue("dict", {"mappings"}, <<MappingA>>, <<>>)
PlanOK     == PlanValue("dict", {"tasks"},
                        [shape |-> "list", items |-> <<Task("2025-05-01", "MATH")>>], <<>>)

(* A JSON list or a scalar where a mapping is expected; run_agent's {} for  *)
(* an empty or unparseable response is the mapping with no keys.            *)
SyllabusOdd(shape) == [shape |-> shape, keys |-> {}, modules |-> <<>>]
ScopeOdd(shape)    == [shape |-> shape, keys |-> {}, exam_date |-> "", topics |-> <<>>]
TocOdd(shape)      == [shape |-> shape, keys |-> {}, relevant_sections |-> <<>>]
GuideOdd(shape)    == GuideValue(shape, {}, <<>>, <<>>)
PlanOdd(shape)     == PlanValue(shape, {}, EmptyList, <<>>)
PlanTasks(tasks)   == PlanValue("dict", {"tasks"}, tasks, <<>>)

(* The hub specification: requests with an empty course list, whose only   *)
(* external call is the final ScheduleSynthesis, and the responses that     *)
(* make the workflow succeed or fail.                                       *)
HubRequests == {[courses |-> <<>>]}
HubPlan     == {PlanOK, PlanTasks([shape |-> "scalar", items |-> <<>>])}

(* The pipeline specification: one Job, wider inputs. *)
CourseCodes == <<"MATH", "PHYS", "CHEM">>
ManualDates == {"", "2025-05-02", "Unknown"}
FileProfiles == {<<TRUE, TRUE, TRUE>>, <<TRUE, TRUE, FALSE>>, <<FALSE, FALSE, FALSE>>}
CourseLists(n) ==
    {[i \in 1..n |-> Course(CourseCodes[i], d[i], f[i][1], f[i][2], f[i][3])] :
        d \in [1..n -> ManualDates], f \in [1..n -> FileProfiles]}
PipeRequests == {[courses |-> cs] : cs \in UNION {CourseLists(n) : n \in 0..MaxCourses}}
PipeSyllabus == {SyllabusOK,
                 SyllabusDict({"course_name", "modules"}, <<ModuleB, ModuleA>>),
                 SyllabusDict({"course_name", "modules"}, <<ModuleText, ModuleBlank>>),
                 SyllabusOdd("list")}
PipeScope    == {ScopeOK, ScopeDict({"exam_date", "topics"}, "unknown", <<>>),
                 ScopeOdd("scalar")}
PipeToc      == {TocOK, TocDict({"relevant_sections"}, <<>>), TocOdd("dict"),
                 TocOdd("list")}
PipeGuide    == {GuideOK, GuideOdd("scalar")}
PipeTaskLists == {<<>>, <<Task("2025-05-01", "MATH")>>, <<Task("2025-05-02", "MATH")>>,
                  <<Task("2025-05-01", "MATH"), Task("2025-05-03", "PHYS")>>}
PipePlan     == {PlanTasks([shape |-> "list", items |-> ts]) : ts \in PipeTaskLists}
                \cup {PlanTasks([shape |-> "scalar", items |-> <<>>]),
                      PlanValue("list", {}, EmptyList, <<Task("2025-05-03", "MATH")>>),
                      PlanOdd("scalar"), PlanOdd("dict")}

(* agents.py:293-316: the final response is empty, or no JSON value is      *)
(* recovered from it: run_agent prints a warning on the console and returns *)
(* {}; the stage wrapper and the workflow go on with that value.  The call  *)
(* is recorded with the shape "unparsed".                                   *)
ParseFails(j) ==
    /\ jobs[j].pc \in Agents
    /\ LET w  == Returned(Worker(j), "unparsed")
           pc == jobs[j].pc
       IN  Commit(CASE pc = "SyllabusExpert" ->
                           AfterSyllabus(w, analyze_syllabus(SyllabusOdd("dict")))
                    [] pc = "ExamScopeAnalyst" ->
                           AfterScope(w, analyze_exam_scope(ScopeOdd("dict")))
                    [] pc = "TocNavigator" -> AfterToc(w, TocOdd("dict"))
                    [] pc = "StudyGuideGuru" -> AfterGuide(w, GuideOdd("dict"))
                    [] OTHER ->
                           AfterPlan([w EXCEPT !.h.answer = PlanOdd("dict")],
                                     PlanOdd("dict")))
    /\ UNCHANGED <<rateVars, pureVars>>

---------------------------------------------------------------------------
(* Specifications *)

Init ==
    /\ session_logs = [s \in Sessions |-> <<>>]
    /\ session_results = [s \in Sessions |-> NoKey]
    /\ session_queues = [s \in Sessions |-> <<>>]
    /\ queues = [q \in QueueIds |-> NoQueue]
    /\ jobs = [j \in JobIds |-> NoJob]
    /\ hist = [j \in JobIds |-> NoHist]
    /\ now = RPM_DELAY
    /\ last_api_call = 0
    /\ callers = [p \in CallerIds |-> [pc |-> "idle", wake |-> 0]]
    /\ recent = <<>>
    /\ final_text = <<>>
    /\ response = NoResponse
    /\ courses_data = <<>>
    /\ compressed = <<>>
    /\ textbook = <<>>
    /\ requested = NoRanges
    /\ page_ranges = NoRanges
    /\ pages_read = <<>>
    /\ sampled = <<>>
    /\ relevant_text = <<>>

(* The hub: overlapping Jobs and stream connections on two sessions.  The   *)
(* session ids are opaque and interchangeable: "s1" names the one used     *)
(* first.                                                                   *)
Used(s) == \/ \E j \in JobIds : jobs[j].session = s
           \/ \E q \in QueueIds : queues[q].session = s
Usable == {s \in Sessions : s = "s1" \/ Used("s1")}

Next ==
    \/ \E s \in Usable, req \in HubRequests : generate_plan(s, req)
    \/ \E q \in QueueIds, s \in Usable : stream_logs(q, s)
    \/ \E q \in QueueIds : event_generator(q)
    \/ \E q \in QueueIds : Disconnect(q)
    \/ \E j \in JobIds : JobStart(j)
    \/ \E j \in JobIds, r \in HubPlan : PlanReturns(j, r)
    \/ \E j \in JobIds : CallRaises(j)

Spec == Init /\ [][Next]_vars

(* The pipeline: one Job on one session, every response shape *)
SubmitOnce(req) ==
    /\ \A j \in JobIds : jobs[j].pc = "none"
    /\ generate_plan("s1", req)

NextPipeline ==
    \/ \E req \in PipeRequests : SubmitOnce(req)
    \/ \E j \in JobIds : JobStart(j)
    \/ \E j \in JobIds, r \in PipeSyllabus : SyllabusReturns(j, r)
    \/ \E j \in JobIds, r \in PipeScope : ScopeReturns(j, r)
    \/ \E j \in JobIds, r \in PipeToc : TocReturns(j, r)
    \/ \E j \in JobIds, r \in PipeGuide : GuideReturns(j, r)
    \/ \E j \in JobIds, r \in PipePlan : PlanReturns(j, r)
    \/ \E j \in JobIds : CallRaises(j)

SpecPipeline == Init /\ [][NextPipeline]_vars

(* The pipeline when run_agent recovers no JSON value from a response: one  *)
(* Job of one course, each call returning a well-formed value, returning {} *)
(* after a failed parse, or raising.                                        *)
NextUnparsed ==
    \/ \E req \in {[courses |-> cs] : cs \in CourseLists(1)} : SubmitOnce(req)
    \/ \E j \in JobIds : JobStart(j)
    \/ \E j \in JobIds : SyllabusReturns(j, SyllabusOK)
    \/ \E j \in JobIds : ScopeReturns(j, ScopeOK)
    \/ \E j \in JobIds : TocReturns(j, TocOK)
    \/ \E j \in JobIds : GuideReturns(j, GuideOK)
    \/ \E j \in JobIds : PlanReturns(j, PlanOK)
    \/ \E j \in JobIds : CallRaises(j)
    \/ \E j \in JobIds : ParseFails(j)

SpecUnparsed == Init /\ [][NextUnparsed]_vars

(* The rate limiter under overlapping Jobs *)
NextRate ==
    \/ \E p \in CallerIds : RateLimitPass(p)
    \/ \E p \in CallerIds : RateLimitSleep(p)
    \/ \E p \in CallerIds : RateLimitWake(p)
    \/ \E p \in CallerIds : CallCompletes(p)
    \/ Tick

SpecRate == Init /\ [][NextRate]_vars

(* The rate limiter within a single Job: its calls are issued one after    *)
(* another, so _rate_limit has one caller at a time.                        *)
NextRateSingle ==
    \/ RateLimitPass(1)
    \/ RateLimitSleep(1)
    \/ RateLimitWake(1)
    \/ CallCompletes(1)
    \/ Tick

SpecRateSingle == Init /\ [][NextRateSingle]_vars

(* run_agent's parsing in one call, over every response text of up to      *)
(* MaxText tokens                                                           *)
NextNormalizer ==
    \/ response = NoResponse /\ \E text \in Texts : FinalResponse(text)
    \/ RunAgentReturns

SpecNormalizer == Init /\ [][NextNormalizer]_vars

(* generate_study_plan's compression in one call, over topic lists and     *)
(* mapping lists                                                            *)
MaxTopics == 2        \* topics of a course
MaxMappings == 2      \* entries of a course's mapping

SeqsUpTo(S, n) == UNION {[1..m -> S] : m \in 0..n}
CompressTopics == {[name |-> nm, importance |-> "high"] : nm \in {"A", "AB", "B"}}
CompressMappings ==
    {Mapping(MappingKeys, "a", "R1", 1),
     Mapping(MappingKeys, "ab", "R2", 3),
     Mapping({"topic"}, "B", "", 0),
     Mapping({"resource", "estimated_hours"}, "", "R3", 4),
     [Mapping({}, "A", "R4", 5) EXCEPT !.shape = "scalar"]}
CompressInputs ==
    {<<[course   |-> [code |-> "MATH", examDate |-> ""],
        syllabus |-> StubSyllabus,
        scope    |-> ScopeDict({"topics"}, "", ts),
        guide    |-> g]>> :
        ts \in SeqsUpTo(CompressTopics, MaxTopics),
        g \in SeqsUpTo(CompressMappings, MaxMappings)}

NextCompress ==
    courses_data = <<>> /\ \E data \in CompressInputs : generate_study_plan(data)

SpecCompress == Init /\ [][NextCompress]_vars

(* Page sampling in one call, over textbooks of MaxPages pages and lists of *)
(* up to MaxRanges requested ranges or localized sections                   *)
MaxPages == 5         \* pages of the textbook
MaxRanges == 1        \* page ranges in one request

PageLens == {0, 7490, 7491}
Books == [1..MaxPages -> PageLens]
RangeBounds ==
    {[keys |-> ks, lo |-> IF "lo" \in ks THEN a ELSE 0, hi |-> IF "hi" \in ks THEN b ELSE 0] :
        ks \in SUBSET {"lo", "hi"}, a \in 0..MaxPages, b \in 0..(MaxPages + 1)}
RequestedRanges ==
    {[keys |-> {IF k = "lo" THEN "start" ELSE "end" : k \in r.keys},
      start |-> r.lo, end |-> r.hi] : r \in RangeBounds}
LocalizedSections ==
    {[keys |-> {IF k = "lo" THEN "start_page" ELSE "end_page" : k \in r.keys},
      start_page |-> r.lo, end_page |-> r.hi] : r \in RangeBounds}

NextTextbook ==
    \/ textbook = <<>> /\ \E book \in Books, ranges \in SeqsUpTo(RequestedRanges, MaxRanges) :
                             load_textbook_pages(book, ranges)
    \/ textbook = <<>> /\ \E book \in Books, sections \in SeqsUpTo(LocalizedSections, MaxRanges) :
                             presample(book, sections)

SpecTextbook == Init /\ [][NextTextbook]_vars

---------------------------------------------------------------------------
(* Properties *)

Yielded(q) == SubSeq(queues[q].items, 1, queues[q].pos)
EventsOf(j, events) == SelectSeq(events, LAMBDA e : e.job = j)
WithoutDone(events) == SelectSeq(events, LAMBDA e : ~e.done)
DoneAt(events) == {i \in DOMAIN events : events[i].done}
RealDate(x) == x # "" /\ Lower(x) \notin {"unknown", "n/a", "none"}

(* C1: any two outbound calls released by the rate limiter start at least   *)
(* RPM_DELAY apart, also when the callers overlap.  (recent holds the start  *)
(* times of the last two released calls.)                                    *)
C1_MinInterval ==
    Len(recent) = 2 => recent[2] - recent[1] >= RPM_DELAY

(* C2: a subscriber that attached while a Job was in flight has been given, *)
(* of that Job, a prefix of what the Job emitted, in emission order, each    *)
(* event once; while it is still registered it has been given exactly the   *)
(* events of that Job emitted so far, the backlog first and then the live   *)
(* events, and what it was given of the log is the session's log.           *)
C2_BacklogThenLive ==
    \A q \in QueueIds :
        queues[q].during # 0 =>
            LET s     == queues[q].session
                given == EventsOf(queues[q].during, queues[q].items)
                em    == hist[queues[q].during].emitted
            IN  /\ Len(given) <= Len(em)
                /\ given = SubSeq(em, 1, Len(given))
                /\ q \in Registered(s) =>
                       /\ given = em
                       /\ WithoutDone(queues[q].items) = session_logs[s]

C2_Witness ==
    \E q \in QueueIds :
        /\ queues[q].state = "open"
        /\ q \in Registered(queues[q].session)
        /\ queues[q].during # 0
        /\ queues[q].backlog > 0
        /\ Len(queues[q].items) > queues[q].backlog
        /\ queues[q].pos > queues[q].backlog

(* C3: once a Job has been submitted for a session and every Job of the     *)
(* session has finished, a subscriber that has read everything in its       *)
(* queue has received a terminal event (its stream has ended), whenever it  *)
(* attached.                                                                *)
C3_EveryStreamEnds ==
    \A q \in QueueIds :
        LET s == queues[q].session
        IN  ( /\ queues[q].state = "open"
              /\ JobsOf(s) # {}
              /\ \A j \in JobsOf(s) : jobs[j].pc = "done"
              /\ queues[q].pos = Len(queues[q].items) )
            => DoneAt(Yielded(q)) # {}

(* C4: a Job emits at most one terminal event, it is the last event the Job *)
(* emits, and a finished Job has emitted it; a stream yields a terminal     *)
(* event only as its last item.                                             *)
C4_OneTerminal ==
    /\ \A j \in JobIds :
        LET em == hist[j].emitted
        IN  /\ Cardinality(DoneAt(em)) <= 1
            /\ DoneAt(em) \subseteq {Len(em)}
            /\ (jobs[j].pc = "done") <=> (DoneAt(em) # {})
    /\ \A q \in QueueIds :
        /\ DoneAt(Yielded(q)) \subseteq {queues[q].pos}
        /\ DoneAt(Yielded(q)) # {} => queues[q].state = "ended"

C4_Witness ==
    /\ \E j \in JobIds : jobs[j].pc = "done" /\ jobs[j].exc = "TypeError"
    /\ \E j \in JobIds : jobs[j].pc = "done" /\ jobs[j].exc = ""
    /\ \E q \in QueueIds : queues[q].state = "ended"

(* C5: a Job writes the session's Result slot at most once. *)
C5_ResultWrittenOnce ==
    \A j \in JobIds : Len(hist[j].writes) <= 1

(* C6: between a submission and the finish of the Job it started, GET       *)
(* result returns the "processing" marker and GET logs returns only events  *)
(* of that Job.                                                             *)
C6_SubmissionResets ==
    \A s \in Sessions :
        (LatestJob(s) # 0 /\ Active(LatestJob(s))) =>
            /\ get_result(s) = Processing
            /\ \A i \in DOMAIN get_logs(s) : get_logs(s)[i].job = LatestJob(s)

(* C7: a Job in which an exception was raised has stopped; the last two     *)
(* events it emitted are its only error-status log entry, which is the last *)
(* entry of the session's log, and a terminal event with status error; the  *)
(* Result slot holds an error descriptor, the last value the Job wrote; and *)
(* it has issued no external call after the exception: the failing call is  *)
(* its last, no later course was started and ScheduleSynthesis was called   *)
(* only if it is the call that failed.                                      *)
C7_FailureHandled ==
    \A j \in JobIds :
        jobs[j].exc # "" =>
            LET em == hist[j].emitted
                n  == Len(em)
                s  == jobs[j].session
                calls == hist[j].calls
            IN  /\ jobs[j].pc = "done"
                /\ n >= 2
                /\ em[n].done /\ em[n].status = "error"
                /\ ~em[n - 1].done /\ em[n - 1].status = "error"
                /\ {i \in DOMAIN em : em[i].status = "error" /\ ~em[i].done} = {n - 1}
                /\ session_logs[s] # <<>> /\ Last(session_logs[s]) = em[n - 1]
                /\ IsError(session_results[s])
                /\ Last(hist[j].writes) = session_results[s]
                /\ session_results[s].error = jobs[j].exc
                /\ Len(calls) = hist[j].callsAtExc
                /\ calls # <<>> /\ Last(calls).shape # "pending"
                /\ \A i \in DOMAIN calls :
                       calls[i].agent = "ChiefOrchestrator" => i = Len(calls)
                /\ Len(jobs[j].all_course_data) < Len(jobs[j].req.courses)
                       => /\ jobs[j].idx = Len(jobs[j].all_course_data) + 1
                          /\ \A i \in DOMAIN calls : calls[i].agent # "ChiefOrchestrator"

C7_Witness ==
    \E j \in JobIds :
        /\ jobs[j].exc # ""
        /\ Len(jobs[j].req.courses) = 2
        /\ jobs[j].idx = 1
        /\ jobs[j].req.courses[2].syllabus_files

(* C8: a Job never fails at a call that returned a JSON list or a scalar:   *)
(* the stage yields its default and the Job goes on.                        *)
C8_ShapeTolerated ==
    \A j \in JobIds :
        jobs[j].exc # "" => Last(hist[j].calls).shape \notin {"list", "scalar"}

(* C9 as claimed: every task of a stored task list whose course has a       *)
(* resolved exam date is dated strictly before that date.                   *)
ExamDateOf(j, code) ==
    {jobs[j].all_course_data[i].course.examDate :
        i \in {k \in DOMAIN jobs[j].all_course_data :
                  jobs[j].all_course_data[k].course.code = code}} \cap Dates

MeetsDeadline(j, tasks) ==
    \A i \in DOMAIN tasks : \A d \in ExamDateOf(j, tasks[i].course) :
        DateBefore(tasks[i].date, d)

ReturnedTasks(r) ==
    IF r.shape = "dict" /\ "tasks" \in r.keys /\ r.tasks.shape = "list" THEN r.tasks.items
    ELSE IF r.shape = "list" THEN r.items
    ELSE <<>>

C10_Precedence ==
    \A j \in JobIds :
        /\ \A i \in DOMAIN jobs[j].all_course_data :
              LET cd == jobs[j].all_course_data[i]
                  m  == jobs[j].req.courses[i].examDate
                  e  == Get(cd.scope, "exam_date", "")
              IN  compressed_exam_date(cd) =
                      IF RealDate(m) THEN m ELSE IF RealDate(e) THEN e ELSE "unknown"
        /\ \A i \in DOMAIN hist[j].emitted :
              hist[j].emitted[i].msg[1] = "Exam date" => RealDate(hist[j].emitted[i].msg[3])

(* C11: for every analysed course, when ExamScopeAnalysis yielded no topic  *)
(* and the syllabus has modules, the course's topic list is, in module      *)
(* order, every topic of each module's topic list, or the module's name     *)
(* when the module has no topics, each with importance medium (a module     *)
(* that is no mapping, or has neither topics nor a name, gives nothing);    *)
(* otherwise the topic list is the one ExamScopeAnalysis yielded.           *)
Medium(name) == [name |-> name, importance |-> "medium"]

ModuleTopics(m) ==
    IF m.shape # "dict" THEN <<>>
    ELSE IF m.topics # <<>> THEN [k \in DOMAIN m.topics |-> Medium(m.topics[k])]
    ELSE IF m.name # "" THEN <<Medium(m.name)>>
    ELSE <<>>

RECURSIVE ModuleTopicsFrom(_, _)
ModuleTopicsFrom(modules, i) ==
    IF i > Len(modules) THEN <<>>
    ELSE ModuleTopics(modules[i]) \o ModuleTopicsFrom(modules, i + 1)

C11_FallbackTopics ==
    \A j \in JobIds : \A i \in DOMAIN jobs[j].all_course_data :
        LET cd      == jobs[j].all_course_data[i]
            yielded == hist[j].scoped[i]
            modules == Get(cd.syllabus, "modules", <<>>)
        IN  Get(cd.scope, "topics", <<>>) =
                IF yielded = <<>> /\ modules # <<>>
                THEN ModuleTopicsFrom(modules, 1)
                ELSE yielded

C11_Witness ==
    \E j \in JobIds : \E i \in DOMAIN jobs[j].all_course_data :
        /\ hist[j].scoped[i] = <<>>
        /\ jobs[j].all_course_data[i].scope.topics = <<Medium("M2"), Medium("A")>>

(* C12: run_agent returns the result of the first step that succeeds among  *)
(* parsing the whole text, parsing the contents of the first json-labelled  *)
(* fenced block, parsing the contents of a fenced block; it returns the     *)
(* empty default only when no step succeeds.                                *)
FencesOf(text) == {i \in DOMAIN text : text[i] = Fence}
(* the k-th fence of the text, and the fenced blocks: the text between the  *)
(* (2k-1)-th and the 2k-th fence, without its label                         *)
FenceAt(text, k) ==
    CHOOSE i \in FencesOf(text) : Cardinality({m \in FencesOf(text) : m <= i}) = k
BlockBody(text, k) ==
    LET inner == SubSeq(text, FenceAt(text, 2 * k - 1) + 1, FenceAt(text, 2 * k) - 1)
    IN  IF inner # <<>> /\ inner[1] = Label THEN Tail(inner) ELSE inner
BlocksOf(text) ==
    {BlockBody(text, k) : k \in 1..(Cardinality(FencesOf(text)) \div 2)}
JsonBlocksOf(text) ==
    {k \in 1..(Cardinality(FencesOf(text)) \div 2) :
        FenceAt(text, 2 * k - 1) < Len(text) /\ text[FenceAt(text, 2 * k - 1) + 1] = Label}

C12_FirstSuccessWins ==
    response \notin {NoResponse, "pending"} =>
        LET whole  == json_loads(final_text)
            first  == IF JsonBlocksOf(final_text) = {} THEN json_loads(<<>>)
                      ELSE json_loads(BlockBody(final_text,
                               CHOOSE k \in JsonBlocksOf(final_text) :
                                   \A m \in JsonBlocksOf(final_text) : k <= m))
            others == {b \in BlocksOf(final_text) : json_loads(b).ok}
        IN  /\ whole.ok => response = whole.value
            /\ (~whole.ok /\ first.ok) => response = first.value
            /\ (~whole.ok /\ ~first.ok /\ others # {})
                   => \E b \in others : response = json_loads(b).value
            /\ response = EmptyDict => (~whole.ok /\ ~first.ok /\ others = {})

(* C13: the external calls of a Job are issued one after another, each      *)
(* after the one before has returned, in the order course by course in      *)
(* request order and, within a course, SyllabusAnalysis, ExamScopeAnalysis, *)
(* chapter localization, resource mapping (resource mapping only right      *)
(* after the course's chapter localization; SyllabusAnalysis and            *)
(* ExamScopeAnalysis exactly for the courses that have the files);          *)
(* ScheduleSynthesis is called only as the last call, after every course    *)
(* has completed, and once every course has completed it has been called    *)
(* exactly once.                                                            *)
StageRank(agent) ==
    CASE agent = "SyllabusExpert"   -> 1
      [] agent = "ExamScopeAnalyst" -> 2
      [] agent = "TocNavigator"     -> 3
      [] agent = "StudyGuideGuru"   -> 4
      [] OTHER                      -> 5

CallKey(j, c) ==
    IF c.agent = "ChiefOrchestrator" THEN 5 * (Len(jobs[j].req.courses) + 1)
    ELSE 5 * c.course + StageRank(c.agent)

CallsOf(j, i, agent) ==
    {k \in DOMAIN hist[j].calls :
        hist[j].calls[k].course = i /\ hist[j].calls[k].agent = agent}

C13_CallOrder ==
    \A j \in JobIds :
        LET calls   == hist[j].calls
            courses == jobs[j].req.courses
            done    == Len(jobs[j].all_course_data)
        IN  /\ \A k \in 1..(Len(calls) - 1) :
                   /\ calls[k].shape # "pending"
                   /\ CallKey(j, calls[k]) < CallKey(j, calls[k + 1])
            /\ \A k \in DOMAIN calls :
                   /\ calls[k].agent # "ChiefOrchestrator"
                          => calls[k].course \in DOMAIN courses
                   /\ calls[k].agent = "ChiefOrchestrator"
                          => k = Len(calls) /\ done = Len(courses)
                   /\ calls[k].agent = "StudyGuideGuru"
                          => /\ k > 1
                             /\ calls[k - 1].agent = "TocNavigator"
                             /\ calls[k - 1].course = calls[k].course
            /\ \A i \in 1..done :
                   /\ Cardinality(CallsOf(j, i, "SyllabusExpert"))
                          = IF courses[i].syllabus_files THEN 1 ELSE 0
                   /\ Cardinality(CallsOf(j, i, "ExamScopeAnalyst"))
                          = IF courses[i].overview_files THEN 1 ELSE 0
                   /\ ~courses[i].textbook_files => CallsOf(j, i, "TocNavigator") = {}
            /\ (jobs[j].pc \notin {"none", "created"} /\ done = Len(courses))
                   => Cardinality(CallsOf(j, 0, "ChiefOrchestrator")) = 1

C13_Witness ==
    \E j \in JobIds :
        /\ jobs[j].pc = "done" /\ jobs[j].exc = ""
        /\ Len(jobs[j].req.courses) = 2
        /\ Len(hist[j].calls) = 9

(* C14: in every step that is not a submission for the session, the         *)
(* session's log keeps its entries, unchanged and in place, and only grows  *)
(* at its end; the entries of a Job stand in the log in the order the Job   *)
(* emitted them; GET logs returns the log as it is.                         *)
IsPrefix(a, b) == Len(a) <= Len(b) /\ SubSeq(b, 1, Len(a)) = a

LogOrdered ==
    \A s \in Sessions :
        /\ get_logs(s) = session_logs[s]
        /\ \A a, b \in DOMAIN session_logs[s] :
               (a < b /\ session_logs[s][a].job = session_logs[s][b].job)
                   => session_logs[s][a].n < session_logs[s][b].n

LogGrows ==
    \A s \in Sessions :
        JobsOf(s)' = JobsOf(s) => IsPrefix(session_logs[s], session_logs'[s])

C14_AppendOnly == []LogOrdered /\ [][LogGrows]_vars

C14_Witness ==
    \E s \in Sessions :
        /\ Len(session_logs[s]) >= 2
        /\ Registered(s) # {}
        /\ \E q \in QueueIds :
               queues[q].session = s /\ queues[q].state \in {"ended", "disconnected"}

(* C15: with one caller at a time, a call is let through only when at least *)
(* RPM_DELAY has passed since the time recorded for the call before it, the *)
(* recorded time is the time at which the last call was let through, and a  *)
(* caller that waits is due RPM_DELAY after the recorded time.              *)
C15_SingleJobInterval ==
    /\ Len(recent) = 2 => Last(recent) - Head(recent) >= RPM_DELAY
    /\ recent # <<>> => last_api_call = Last(recent)
    /\ callers[1].pc = "sleeping" => callers[1].wake = last_api_call + RPM_DELAY

C15_Witness ==
    /\ callers[1].pc = "calling"
    /\ Len(recent) = 2
    /\ Last(recent) - Head(recent) = RPM_DELAY
    /\ now = Last(recent)

(* C16: the step in which a subscriber disconnects removes its queue, and   *)
(* nothing else, from the session's subscriber list and changes neither a   *)
(* log, a Result slot, a Job nor the queue of another subscriber; and in a  *)
(* session that a subscriber has left, every subscriber still registered    *)
(* holds the whole log of the session.                                      *)
DisconnectFrame ==
    \A q \in QueueIds :
        (queues[q].state = "open" /\ queues'[q].state = "disconnected") =>
            /\ session_queues' = [session_queues EXCEPT
                                     ![queues[q].session] = Remove(@, q)]
            /\ session_logs' = session_logs
            /\ session_results' = session_results
            /\ jobs' = jobs
            /\ \A k \in QueueIds \ {q} : queues'[k] = queues[k]

OthersKeepReceiving ==
    \A q \in QueueIds : \A k \in QueueIds :
        (queues[q].state = "disconnected" /\ k \in Registered(queues[q].session))
            => WithoutDone(queues[k].items) = session_logs[queues[q].session]

C16_DisconnectFrame == []OthersKeepReceiving /\ [][DisconnectFrame]_vars

C16_Witness ==
    \E q \in QueueIds : \E k \in queues[q].peers :
        /\ queues[q].state = "disconnected"
        /\ k \in Registered(queues[q].session)
        /\ Len(session_logs[queues[q].session]) > queues[q].left
        /\ Len(queues[k].items) > queues[q].left

(* C17: for an analysed course with no textbook, no chapter-localization    *)
(* and no resource-mapping call was issued and the course's mapping is      *)
(* empty; once every course is analysed, ScheduleSynthesis has been called  *)
(* with one compressed record per course, in which every topic of such a    *)
(* course has resource "Textbook" and DEFAULT_HOURS hours.                  *)
C17_NoTextbook ==
    \A j \in JobIds :
        LET courses == jobs[j].req.courses
            data    == jobs[j].all_course_data
            sent    == hist[j].compressed
        IN  /\ Len(data) = Len(courses) /\ jobs[j].pc \notin {"none", "created"}
                   => /\ Len(sent) = Len(courses)
                      /\ CallsOf(j, 0, "ChiefOrchestrator") # {}
            /\ \A i \in DOMAIN data :
                   ~courses[i].textbook_files =>
                       /\ CallsOf(j, i, "TocNavigator") = {}
                       /\ CallsOf(j, i, "StudyGuideGuru") = {}
                       /\ data[i].guide = <<>>
                       /\ i \in DOMAIN sent =>
                              /\ Len(sent[i].topics) = Len(Get(data[i].scope, "topics", <<>>))
                              /\ \A t \in DOMAIN sent[i].topics :
                                     /\ sent[i].topics[t].resource = "Textbook"
                                     /\ sent[i].topics[t].hours = DEFAULT_HOURS

C17_Witness ==
    \E j \in JobIds : \E i \in DOMAIN hist[j].compressed :
        /\ ~jobs[j].req.courses[i].textbook_files
        /\ hist[j].compressed[i].topics # <<>>
        /\ hist[j].calls # <<>> /\ Last(hist[j].calls).agent = "ChiefOrchestrator"

(* C18: when chapter localization returned a mapping with zero sections,    *)
(* it is the only external call of the course's TextbookMapping stage (no   *)
(* resource-mapping call), the course is analysed, and its mapping has one  *)
(* entry per topic name, in order, with resource "Textbook (section not     *)
(* identified)" and DEFAULT_HOURS hours.                                    *)
C18_ZeroSections ==
    \A j \in JobIds : \A k \in DOMAIN hist[j].calls :
        LET c == hist[j].calls[k]
            i == c.course
            data == jobs[j].all_course_data
        IN  (c.agent = "TocNavigator" /\ c.sections = 0) =>
                /\ CallsOf(j, i, "StudyGuideGuru") = {}
                /\ CallsOf(j, i, "TocNavigator") = {k}
                /\ i \in DOMAIN data
                /\ LET topics == Get(data[i].scope, "topics", <<>>)
                       guide  == data[i].guide
                   IN  /\ Len(guide) = Len(topics)
                       /\ \A n \in DOMAIN guide :
                              /\ guide[n].topic = topics[n].name
                              /\ guide[n].resource = "Textbook (section not identified)"
                              /\ guide[n].estimated_hours = DEFAULT_HOURS

C18_Witness ==
    \E j \in JobIds : \E k \in DOMAIN hist[j].calls :
        /\ hist[j].calls[k].agent = "TocNavigator"
        /\ hist[j].calls[k].sections = 0
        /\ hist[j].calls[k].course \in DOMAIN jobs[j].all_course_data
        /\ Len(jobs[j].all_course_data[hist[j].calls[k].course].guide) = 2

(* C19: in a compressed record every topic has the resource and the hours   *)
(* of the first entry of the course's mapping that is a mapping and whose   *)
(* topic name, letter case ignored, equals the topic's name, contains it or *)
(* is contained in it (the defaults for what the entry lacks); a topic      *)
(* with no such entry has resource "Textbook" and DEFAULT_HOURS hours.      *)
Folded(name) == [n \in 1..Len(Chars(name)) |-> LowerChar(Chars(name)[n])]

IsInfix(x, y) ==
    \E pre \in 0..Len(y) :
        /\ pre + Len(x) <= Len(y)
        /\ \A n \in 1..Len(x) : x[n] = y[pre + n]

Related(entry, name) ==
    /\ entry.shape = "dict"
    /\ LET g == Folded(IF "topic" \in entry.keys THEN entry.topic ELSE "")
       IN  IsInfix(g, Folded(name)) \/ IsInfix(Folded(name), g)

C19_FirstMatch ==
    \A i \in DOMAIN compressed :
        LET topics == courses_data[i].scope.topics
            guide  == courses_data[i].guide
        IN  /\ Len(compressed[i].topics) = Len(topics)
            /\ \A t \in DOMAIN topics :
                   LET out  == compressed[i].topics[t]
                       hits == {g \in DOMAIN guide : Related(guide[g], topics[t].name)}
                   IN  /\ out.topic = topics[t].name
                       /\ hits = {} => out.resource = "Textbook" /\ out.hours = DEFAULT_HOURS
                       /\ \A g \in hits :
                              (\A h \in hits : g <= h) =>
                                  /\ out.resource =
                                         IF "resource" \in guide[g].keys
                                         THEN guide[g].resource ELSE "Textbook"
                                  /\ out.hours =
                                         IF "estimated_hours" \in guide[g].keys
                                         THEN guide[g].estimated_hours ELSE DEFAULT_HOURS

C19_Witness ==
    \E i \in DOMAIN compressed : \E t \in DOMAIN compressed[i].topics :
        /\ compressed[i].topics[t].topic = "AB"
        /\ compressed[i].topics[t].resource = "R1"
        /\ Len(courses_data[i].guide) = 2
        /\ courses_data[i].guide[2].resource = "R1"

(* C20: in a Job that has succeeded, every stage for which an external call *)
(* was issued has exactly one start event (status loading) and, after it,   *)
(* exactly one success or error event with the stage's agent (for a         *)
(* course's stage: among the events about that course).                     *)
StageEvents(j, c) ==
    {n \in DOMAIN hist[j].emitted :
        LET e == hist[j].emitted[n]
        IN  /\ ~e.done
            /\ e.agent = c.agent
            /\ c.course # 0 =>
                   (Len(e.msg) >= 2 /\ e.msg[2] = jobs[j].req.courses[c.course].code)}

C20_OneStartOneEnd ==
    \A j \in JobIds :
        (jobs[j].pc = "done" /\ jobs[j].exc = "") =>
            \A k \in DOMAIN hist[j].calls :
                LET evs    == StageEvents(j, hist[j].calls[k])
                    starts == {n \in evs : hist[j].emitted[n].status = "loading"}
                    ends   == {n \in evs : hist[j].emitted[n].status \in {"success", "error"}}
                IN  /\ Cardinality(starts) = 1
                    /\ Cardinality(ends) = 1
                    /\ \A a \in starts : \A b \in ends : a < b

(* C21: for every external call of a Job from whose response no JSON value  *)
(* was recovered, the Job has emitted a warning event for that call's stage, *)
(* the event stands in the session's log, and the Job has gone on: it did    *)
(* not fail at that call.                                                    *)
Unparsed(j) == {k \in DOMAIN hist[j].calls : hist[j].calls[k].shape = "unparsed"}

C21_WarningLogged ==
    \A j \in JobIds : \A k \in Unparsed(j) :
        /\ \E n \in DOMAIN hist[j].emitted :
               /\ hist[j].emitted[n].status = "warning"
               /\ hist[j].emitted[n].agent = hist[j].calls[k].agent
               /\ \E m \in DOMAIN session_logs[jobs[j].session] :
                      session_logs[jobs[j].session][m] = hist[j].emitted[n]
        /\ jobs[j].exc = "" \/ hist[j].callsAtExc > k

(* C21, the part that holds: no Job fails at a call from whose response no   *)
(* JSON value was recovered; and no event of any Job has status warning.     *)
C21_Proceeds ==
    \A j \in JobIds :
        /\ \A k \in Unparsed(j) : jobs[j].exc = "" \/ k < Len(hist[j].calls)
        /\ \A n \in DOMAIN hist[j].emitted :
               hist[j].emitted[n].status \in {"loading", "success", "error"}

(* C22: what a subscriber's queue was given since it attached, the terminal *)
(* event included, stands in the session's log in the same order (for a     *)
(* subscriber that attached during the session's latest Job, so that no     *)
(* submission has reset the log since); and once the Jobs of the session    *)
(* have finished, a subscriber that attached before the first event was     *)
(* emitted has received exactly what GET logs returns.                      *)
C22_PushedAreLogged ==
    \A q \in QueueIds :
        LET s == queues[q].session
        IN  (queues[q].state \in {"open", "ended"} /\ queues[q].during # 0
                 /\ queues[q].during = LatestJob(s)) =>
                /\ IsPrefix(queues[q].items, session_logs[s])
                /\ (queues[q].state = "ended" /\ queues[q].backlog = 0
                        /\ \A j \in JobsOf(s) : jobs[j].pc = "done")
                       => Yielded(q) = get_logs(s)

(* C22, the part that holds: the events pushed to a registered subscriber   *)
(* that are not terminal events are the session's log.                      *)
C22_NonTerminalLogged ==
    \A q \in QueueIds :
        LET s == queues[q].session
        IN  (queues[q].state \in {"open", "ended"} /\ queues[q].during # 0
                 /\ queues[q].during = LatestJob(s)) =>
                IsPrefix(WithoutDone(queues[q].items), session_logs[s])

(* C23: the text passed on after sampling is never longer than SAMPLE_LIMIT *)
(* characters plus the marker; when the extracted text is longer than       *)
(* SAMPLE_LIMIT, it is the first SAMPLE_LIMIT characters of the extracted   *)
(* text followed by the marker; when the extracted text has SAMPLE_LIMIT    *)
(* characters or fewer it is the extracted text, with no marker.            *)
HasMarker(text) == \E i \in DOMAIN text : text[i].kind = "marker"

CharPrefix(a, b) ==
    \/ a = <<>>
    \/ /\ Len(a) <= Len(b)
       /\ \A i \in 1..(Len(a) - 1) : a[i] = b[i]
       /\ a[Len(a)].kind = b[Len(a)].kind
       /\ a[Len(a)].page = b[Len(a)].page
       /\ a[Len(a)].n >= 1
       /\ a[Len(a)].n <= b[Len(a)].n

C23_Truncated ==
    textbook # <<>> =>
        /\ StrLen(relevant_text) <= SAMPLE_LIMIT + MARKER_LEN
        /\ StrLen(sampled) > SAMPLE_LIMIT =>
               LET kept == SubSeq(relevant_text, 1, Len(relevant_text) - 1)
               IN  /\ relevant_text # <<>>
                   /\ Last(relevant_text) = Marker
                   /\ StrLen(kept) = SAMPLE_LIMIT
                   /\ CharPrefix(kept, sampled)
                   /\ ~HasMarker(kept)
        /\ StrLen(sampled) <= SAMPLE_LIMIT =>
               /\ relevant_text = sampled
               /\ ~HasMarker(relevant_text)

C23_Witness ==
    /\ StrLen(sampled) = SAMPLE_LIMIT + 1
    /\ HasMarker(relevant_text)
    /\ StrLen(relevant_text) = SAMPLE_LIMIT + MARKER_LEN


(* C28: for every requested range that names its start s and its end e, at  *)
(* most PAGE_SPAN pages are extracted, by the tool and by the pre-sampling  *)
(* alike, each of them a page of the range s..e.                            *)
Bounded(i) == {"start", "end"} \subseteq requested[i].keys

C28_AtMostThreePages ==
    \A i \in DOMAIN pages_read :
        Bounded(i) =>
            /\ Len(pages_read[i]) <= PAGE_SPAN
            /\ \A k \in DOMAIN pages_read[i] :
                   /\ pages_read[i][k] >= requested[i].start
                   /\ pages_read[i][k] <= requested[i].end

(* C28, the part that holds: the pages extracted for a range are pages of   *)
(* the range, no page twice, from its start up to PAGE_SPAN pages after it. *)
C28_InsideRange ==
    \A i \in DOMAIN pages_read :
        Bounded(i) =>
            /\ Len(pages_read[i]) <= PAGE_SPAN + 1
            /\ \A k \in DOMAIN pages_read[i] :
                   /\ pages_read[i][k] >= requested[i].start
                   /\ pages_read[i][k] <= requested[i].end
                   /\ pages_read[i][k] <= requested[i].start + PAGE_SPAN
                   /\ \A m \in DOMAIN pages_read[i] :
                          m < k => pages_read[i][m] < pages_read[i][k]

C25_LaterJobWins ==
    \A s \in Sessions :
        (Cardinality(JobsOf(s)) = 2 /\ \A j \in JobsOf(s) : jobs[j].pc = "done")
            => session_results[s] = Last(hist[LatestJob(s)].writes)

(* C25, the part that holds: a submission leaves the Job in flight as it    *)
(* is, and once both have finished the slot holds what one of them wrote    *)
(* last.                                                                    *)
C25_NotCancelled ==
    /\ [][\A j \in JobIds : Active(j) => (jobs'[j] = jobs[j] \/ jobs'[j].n > jobs[j].n)]_vars
    /\ [](\A s \in Sessions :
            (JobsOf(s) # {} /\ \A j \in JobsOf(s) : jobs[j].pc = "done")
                => \E j \in JobsOf(s) : session_results[s] = Last(hist[j].writes))

(* C26: every step is an operation on one session and changes the log, the  *)
(* Result slot, the subscriber list, the subscribers' queues and the Jobs   *)
(* of no other session; and every event in a session's log or in the queue  *)
(* of one of its subscribers was emitted by a Job of that session.          *)
Touched(s) ==
    \/ session_logs'[s] # session_logs[s]
    \/ session_results'[s] # session_results[s]
    \/ session_queues'[s] # session_queues[s]
    \/ \E q \in QueueIds :
          /\ queues[q].session = s \/ queues'[q].session = s
          /\ queues'[q] # queues[q]
    \/ \E j \in JobIds :
          /\ jobs[j].session = s \/ jobs'[j].session = s
          /\ jobs'[j] # jobs[j]

SessionFrame == \A a, b \in Sessions : (Touched(a) /\ Touched(b)) => a = b

NoCrossDelivery ==
    /\ \A q \in QueueIds : \A i \in DOMAIN queues[q].items :
           jobs[queues[q].items[i].job].session = queues[q].session
    /\ \A s \in Sessions : \A i \in DOMAIN session_logs[s] :
           jobs[session_logs[s][i].job].session = s
    /\ \A s \in Sessions : \A i \in DOMAIN session_queues[s] :
           queues[session_queues[s][i]].session = s

C26_SessionsIndependent == []NoCrossDelivery /\ [][SessionFrame]_vars

C26_Witness ==
    \E q, k \in QueueIds :
        /\ queues[q].session = "s1" /\ queues[k].session = "s2"
        /\ queues[q].items # <<>> /\ queues[k].items # <<>>
        /\ session_queues["s1"] = <<q>> /\ session_queues["s2"] = <<k>>
        /\ Len(session_logs["s1"]) >= 2 /\ Len(session_logs["s2"]) >= 2
        /\ session_results["s1"] # NoKey /\ session_results["s2"] # NoKey

(* C27: in a compressed record a topic has the resource and hours of a      *)
(* mapping entry only if that entry has a topic name that is not empty and  *)
(* is related to the topic's name; a topic for which the mapping has no     *)
(* such entry has resource "Textbook" and DEFAULT_HOURS hours.              *)
Named(entry) == entry.shape = "dict" /\ "topic" \in entry.keys /\ entry.topic # ""

C27_EmptyTopicMatchesNone ==
    \A i \in DOMAIN compressed :
        LET topics == courses_data[i].scope.topics
            guide  == courses_data[i].guide
        IN  \A t \in DOMAIN topics :
                LET out  == compressed[i].topics[t]
                    hits == {g \in DOMAIN guide :
                                Named(guide[g]) /\ Related(guide[g], topics[t].name)}
                IN  hits = {} => out.resource = "Textbook" /\ out.hours = DEFAULT_HOURS

===========================================================================
